---- MODULE Spec2Model ----
(***************************************************************************)
(* Model of monitor_results.py: the incremental row processor              *)
(* (process_sheet), the persisted checkpoint (config.json, key             *)
(* last_processed_row) and the file watcher that triggers passes.          *)
(*                                                                         *)
(* A pass is one call of process_sheet.  Its steps are the points at which *)
(* it touches shared state: reading config.json, reading the spreadsheet,  *)
(* one send attempt per row, one write of config.json per delivered row.   *)
(* The spreadsheet is edited by its owner, which the model shows as rows   *)
(* being appended.                                                         *)
(***************************************************************************)
EXTENDS Integers, Sequences, FiniteSets, TLC

\* Bounds of the model.
MaxRows == 2
MaxPasses == 3
MaxPad == 1

\* A default checkpoint at the first row of the table.
DefaultFirstRow == 1 - 1

\* state.get('last_processed_row', 1) and {**cfg, 'last_processed_row': 1}
DefaultLastRow == 1

VARIABLES
    config_exists,  \* CONFIG_PATH.exists()
    config,         \* the JSON object stored in config.json (a dict)
    cfg,            \* module global cfg, loaded once at import
    nrows,          \* number of data rows of the spreadsheet on disk
    started,        \* the initial run of __main__ has been entered
    npass,          \* number of calls of process_sheet so far
    pass,           \* pass[p]: the locals and position of the p-th call
    init_row,       \* history: the checkpoint the run started from
    init_rows,      \* history: the table size the run started from
    event,          \* history: the last event given to on_modified
    result,         \* the result cell of the row being rendered
    template_name   \* the template chosen for it

vars == <<config_exists, config, cfg, nrows, started, npass, pass, init_row, init_rows,
          event, result, template_name>>

\* The locals of the template choice, lines 91-97.
sel == <<result, template_name>>

Passes == 1..MaxPasses

\* ------------------------------------------------------------------ dicts
LPR == "last_processed_row"

\* The configuration fields other than the checkpoint, as one field.
BaseConfig == [subject |-> "s"]

\* d with d[k] = v (dict item assignment, and {**d, k: v})
DictSet(d, k, v) == [x \in (DOMAIN d) \cup {k} |-> IF x = k THEN v ELSE d[x]]

\* d.get(k, default)
DictGet(d, k, default) == IF k \in DOMAIN d THEN d[k] ELSE default

\* ------------------------------------------------------------------ paths
\* File names and event paths are sequences of characters.
ExcelName == <<"r", ".", "x">>

EventPaths == { <<"/", "r", ".", "x">>,
                <<"/", "o", "r", ".", "x">>,
                <<"/", "l", "o", "g">> }

\* str.endswith
EndsWith(s, suffix) ==
    /\ Len(suffix) <= Len(s)
    /\ SubSeq(s, Len(s) - Len(suffix) + 1, Len(s)) = suffix

\* ------------------------------------------------------------------ passes
IdlePass == [pc |-> "idle", state |-> <<>>, last_row |-> 0, total_rows |-> 0,
             idx |-> 0, att |-> <<>>]

InFlight(p) == pass[p].pc \in {"load", "read", "row", "save"}

\* A loop that stops one row early: range(last_row, total_rows - 1).
LoopPcShort(i, total_rows) == IF i + 1 < total_rows THEN "row" ELSE "done"

\* A loop that runs one row too far: range(last_row, total_rows + 1).
LoopPcInclusive(i, total_rows) == IF i <= total_rows THEN "row" ELSE "done"

\* The for statement's test: the next iteration, or the end of the pass.
LoopPc(i, total_rows) == IF i < total_rows THEN "row" ELSE "done"

\* No event has been delivered yet; no row has been rendered yet.
NoEvent == [path |-> <<>>, calls |-> 0]
NoResult == [kind |-> "unset"]

\* cfg = load_config() at import; the state in which __main__ is entered.
Init ==
    /\ config_exists = TRUE
    /\ \E c \in 0..MaxRows, hasRow \in BOOLEAN :
          config = IF hasRow THEN DictSet(BaseConfig, LPR, c) ELSE BaseConfig
    /\ cfg = config
    /\ nrows \in 0..MaxRows
    /\ started = FALSE
    /\ npass = 0
    /\ pass = [p \in Passes |-> IdlePass]
    /\ init_row = DictGet(config, LPR, DefaultLastRow)
    /\ init_rows = nrows
    /\ event = NoEvent
    /\ result = NoResult
    /\ template_name = ""

\* Entering process_sheet as the next call.
StartPass ==
    /\ npass < MaxPasses
    /\ npass' = npass + 1
    /\ pass' = [pass EXCEPT ![npass + 1] = [IdlePass EXCEPT !.pc = "load"]]

\* __main__: the initial run, before the observer is started.
InitialRun ==
    /\ ~started
    /\ started' = TRUE
    /\ StartPass
    /\ UNCHANGED <<config_exists, config, cfg, nrows, init_row, init_rows, event, sel>>

\* Passes ended by the termination of the process.
Killed == { p \in Passes : pass[p].pc = "killed" }

\* The pass that is the initial run of the current process: the first one,
\* or the one entered after the latest termination.
InitialPass ==
    IF Killed = {} THEN 1
    ELSE 1 + (CHOOSE p \in Killed : \A q \in Killed : q <= p)

\* The observer runs once the initial process_sheet() has returned.
ObserverRunning ==
    /\ started
    /\ InitialPass \in Passes
    /\ pass[InitialPass].pc = "done"

\* ExcelChangeHandler.on_modified
on_modified(path) ==
    /\ ObserverRunning
    /\ IF EndsWith(path, ExcelName)
          THEN StartPass
          ELSE UNCHANGED <<npass, pass>>
    /\ UNCHANGED <<config_exists, config, cfg, nrows, started, init_row, init_rows, sel>>

\* An event of the observer, delivered to the handler.
OnModified(path) ==
    /\ on_modified(path)
    /\ UNCHANGED event

\* A load that raises when config.json is missing (load_config called
\* without the exists() test), ending the pass.
LoadStateStrict(p) ==
    /\ pass[p].pc = "load"
    /\ IF config_exists
          THEN pass' = [pass EXCEPT ![p].pc = "read",
                                    ![p].state = config,
                                    ![p].last_row = DictGet(config, "last_processed_row", 1)]
          ELSE pass' = [pass EXCEPT ![p].pc = "aborted"]
    /\ UNCHANGED <<config_exists, config, cfg, nrows, started, npass, init_row, init_rows, event, sel>>

\* process_sheet, lines 72-73
LoadState(p) ==
    /\ pass[p].pc = "load"
    /\ LET state == IF config_exists THEN config
                    ELSE DictSet(cfg, LPR, DefaultLastRow)
       IN pass' = [pass EXCEPT ![p].pc = "read",
                               ![p].state = state,
                               ![p].last_row = DictGet(state, LPR, DefaultLastRow)]
    /\ UNCHANGED <<config_exists, config, cfg, nrows, started, npass, init_row, init_rows, event, sel>>

\* A pass that ignores the checkpoint and starts at the first row.
ReadSheetFromStart(p) ==
    /\ pass[p].pc = "read"
    /\ pass' = [pass EXCEPT ![p].total_rows = nrows,
                            ![p].idx = 0,
                            ![p].pc = LoopPc(0, nrows)]
    /\ UNCHANGED <<config_exists, config, cfg, nrows, started, npass, init_row, init_rows, event, sel>>

\* process_sheet, lines 76-87: read the sheet, total_rows, enter the loop
ReadSheet(p) ==
    /\ pass[p].pc = "read"
    /\ pass' = [pass EXCEPT ![p].total_rows = nrows,
                            ![p].idx = pass[p].last_row,
                            ![p].pc = LoopPc(pass[p].last_row, nrows)]
    /\ UNCHANGED <<config_exists, config, cfg, nrows, started, npass, init_row, init_rows, event, sel>>

\* lines 98-99 raise (jinja_env.get_template outside the try): the call ends
RenderFail(p) ==
    /\ pass[p].pc = "row"
    /\ pass' = [pass EXCEPT ![p].pc = "aborted"]
    /\ UNCHANGED <<config_exists, config, cfg, nrows, started, npass, init_row, init_rows, event, sel>>

\* A failed send that ends the pass (an except clause that re-raises).
SendFailAborts(p) ==
    /\ pass[p].pc = "row"
    /\ pass' = [pass EXCEPT
                  ![p].att = Append(@, [idx |-> pass[p].idx, ok |-> FALSE]),
                  ![p].pc = "aborted"]
    /\ UNCHANGED <<config_exists, config, cfg, nrows, started, npass, init_row, init_rows, event, sel>>

\* A failed send that advances the checkpoint all the same (the update in
\* a finally clause instead of the else clause).
SendFailAdvances(p) ==
    /\ pass[p].pc = "row"
    /\ config' = DictSet(pass[p].state, "last_processed_row", pass[p].idx + 1)
    /\ pass' = [pass EXCEPT
                  ![p].att = Append(@, [idx |-> pass[p].idx, ok |-> FALSE]),
                  ![p].state = config',
                  ![p].idx = @ + 1,
                  ![p].pc = LoopPc(pass[p].idx + 1, pass[p].total_rows)]
    /\ UNCHANGED <<config_exists, cfg, nrows, started, npass, init_row, init_rows, event, sel>>

\* lines 101-104: send_email raises; logged, next iteration
SendFail(p) ==
    /\ pass[p].pc = "row"
    /\ pass' = [pass EXCEPT
                  ![p].att = Append(@, [idx |-> pass[p].idx, ok |-> FALSE]),
                  ![p].idx = @ + 1,
                  ![p].pc = LoopPc(pass[p].idx + 1, pass[p].total_rows)]
    /\ UNCHANGED <<config_exists, config, cfg, nrows, started, npass, init_row, init_rows, event, sel>>

\* lines 101-102: send_email returns; the else branch is entered
SendOk(p) ==
    /\ pass[p].pc = "row"
    /\ pass' = [pass EXCEPT
                  ![p].att = Append(@, [idx |-> pass[p].idx, ok |-> TRUE]),
                  ![p].pc = "save"]
    /\ UNCHANGED <<config_exists, config, cfg, nrows, started, npass, init_row, init_rows, event, sel>>

\* A save that writes the checkpoint alone (a partial update).
save_config_partial(updated_cfg) ==
    /\ config' = [k \in {"last_processed_row"} |-> updated_cfg[k]]
    /\ config_exists' = TRUE

\* save_config: the whole dict replaces the file's content
save_config(updated_cfg) ==
    /\ config' = updated_cfg
    /\ config_exists' = TRUE

\* A checkpoint that names the row just sent instead of the next one.
SaveStateStale(p) ==
    /\ pass[p].pc = "save"
    /\ LET state == DictSet(pass[p].state, "last_processed_row", pass[p].idx)
       IN /\ save_config(state)
          /\ pass' = [pass EXCEPT
                        ![p].state = state,
                        ![p].idx = @ + 1,
                        ![p].pc = LoopPc(pass[p].idx + 1, pass[p].total_rows)]
    /\ UNCHANGED <<cfg, nrows, started, npass, init_row, init_rows, event, sel>>

\* A checkpoint written once, when the loop has ended, instead of after
\* every delivered row.
SaveStateBatched(p) ==
    /\ pass[p].pc = "save"
    /\ LET state == DictSet(pass[p].state, "last_processed_row", pass[p].idx + 1)
       IN /\ IF pass[p].idx + 1 < pass[p].total_rows
                THEN UNCHANGED <<config, config_exists>>
                ELSE save_config(state)
          /\ pass' = [pass EXCEPT
                        ![p].state = state,
                        ![p].idx = @ + 1,
                        ![p].pc = LoopPc(pass[p].idx + 1, pass[p].total_rows)]
    /\ UNCHANGED <<cfg, nrows, started, npass, init_row, init_rows, event, sel>>

\* A checkpoint that is not written once a send of the pass has failed, so
\* that it stays at the first failed row.
SaveStatePinned(p) ==
    /\ pass[p].pc = "save"
    /\ LET state == IF \E i \in 1..Len(pass[p].att) : ~pass[p].att[i].ok
                       THEN pass[p].state
                       ELSE DictSet(pass[p].state, "last_processed_row", pass[p].idx + 1)
       IN /\ save_config(state)
          /\ pass' = [pass EXCEPT
                        ![p].state = state,
                        ![p].idx = @ + 1,
                        ![p].pc = LoopPc(pass[p].idx + 1, pass[p].total_rows)]
    /\ UNCHANGED <<cfg, nrows, started, npass, init_row, init_rows, event, sel>>

\* lines 105-108: state['last_processed_row'] = idx + 1; save_config(state)
SaveState(p) ==
    /\ pass[p].pc = "save"
    /\ LET state == DictSet(pass[p].state, LPR, pass[p].idx + 1)
       IN /\ save_config(state)
          /\ pass' = [pass EXCEPT
                        ![p].state = state,
                        ![p].idx = @ + 1,
                        ![p].pc = LoopPc(pass[p].idx + 1, pass[p].total_rows)]
    /\ UNCHANGED <<cfg, nrows, started, npass, init_row, init_rows, event, sel>>

\* The owner of the spreadsheet appends a row.
AppendRow ==
    /\ nrows < MaxRows
    /\ nrows' = nrows + 1
    /\ UNCHANGED <<config_exists, config, cfg, started, npass, pass, init_row, init_rows, event, sel>>

Step(p) ==
    \/ LoadState(p)
    \/ ReadSheet(p)
    \/ RenderFail(p)
    \/ SendFail(p)
    \/ SendOk(p)
    \/ SaveState(p)

Next ==
    \/ InitialRun
    \/ \E path \in EventPaths : OnModified(path)
    \/ \E p \in Passes : Step(p)
    \/ AppendRow

Spec == Init /\ [][Next]_vars

\* ------------------------------------------------------------------ serial
\* The same program when the handler's calls never overlap: an event is
\* delivered only while no call of process_sheet is in progress.
NoPassInFlight == \A p \in Passes : ~InFlight(p)

OnModifiedSerial(path) ==
    /\ NoPassInFlight
    /\ OnModified(path)

NextSerial ==
    \/ InitialRun
    \/ \E path \in EventPaths : OnModifiedSerial(path)
    \/ \E p \in Passes : Step(p)
    \/ AppendRow

SerialSpec == Init /\ [][NextSerial]_vars

\* ------------------------------------------------------------------ views
\* The checkpoint the next load will resume from.
Checkpoint == DictGet(config, LPR, DefaultLastRow)

Last(s) == s[Len(s)]

Rows == 0..(MaxRows - 1)

\* Row offsets pass p has tried to send, and those it failed to send.
Attempted(p) == { pass[p].att[i].idx : i \in 1..Len(pass[p].att) }
Failed(p) == { pass[p].att[i].idx : i \in { j \in 1..Len(pass[p].att) : ~pass[p].att[j].ok } }

AllOk(p) == \A i \in 1..Len(pass[p].att) : pass[p].att[i].ok

\* Number of successful sends of row r so far, over all passes.
Delivered(r) ==
    Cardinality({ pi \in Passes \X (1..MaxRows) :
                    /\ pi[2] <= Len(pass[pi[1]].att)
                    /\ pass[pi[1]].att[pi[2]].idx = r
                    /\ pass[pi[1]].att[pi[2]].ok })

\* The rows c..n-1 as the log of a pass that sent each of them.
SentInOrder(c, n) == [i \in 1..(n - c) |-> [idx |-> c + i - 1, ok |-> TRUE]]

\* Row offsets pass p has delivered.
Succeeded(p) == Attempted(p) \ Failed(p)

\* The greatest element of a non-empty set of numbers.
Max(S) == CHOOSE x \in S : \A y \in S : y <= x

\* Pass p is in its loop: between reading the table and returning.
InLoop(p) == pass[p].pc \in {"row", "save"}

\* The fields of a configuration other than the checkpoint.
NonCheckpoint(d) == [k \in (DOMAIN d) \ {LPR} |-> d[k]]

\* Pass p has returned and no later pass has been entered.
LatestDone(p) == p = npass /\ pass[p].pc = "done"

\* ------------------------------------------------------------------ crash
\* The process is terminated while a pass is in flight and is started
\* again: the pass ends where it is, the module is imported anew
\* (cfg = load_config()) and __main__ is entered.  A write of config.json
\* is taken as atomic; a termination while no pass runs leaves a state that
\* Init already covers.
Crash ==
    /\ \E p \in Passes : InFlight(p)
    /\ config_exists
    /\ pass' = [p \in Passes |->
                  IF InFlight(p) THEN [pass[p] EXCEPT !.pc = "killed"] ELSE pass[p]]
    /\ started' = FALSE
    /\ cfg' = config
    /\ init_row' = Checkpoint
    /\ init_rows' = nrows
    /\ UNCHANGED <<config_exists, config, nrows, npass, event, sel>>

NextCrash ==
    \/ InitialRun
    \/ \E path \in EventPaths : OnModifiedSerial(path)
    \/ \E p \in Passes : Step(p)
    \/ AppendRow
    \/ Crash

CrashSpec == Init /\ [][NextCrash]_vars

\* Row r was delivered by a pass entered before pass q.
DeliveredBefore(q, r) ==
    \E p \in 1..(q - 1) : \E i \in 1..Len(pass[p].att) :
        pass[p].att[i] = [idx |-> r, ok |-> TRUE]

\* Pass p was ended by a termination between its send of row r and the
\* write of the checkpoint for it.
KilledBeforeSave(p, r) ==
    /\ pass[p].pc = "killed"
    /\ pass[p].att # <<>>
    /\ Last(pass[p].att) = [idx |-> r, ok |-> TRUE]
    /\ pass[p].idx = r

\* ------------------------------------------------------------------ config
\* config.json is removed while the process runs.
DeleteConfig ==
    /\ config_exists
    /\ config_exists' = FALSE
    /\ config' = <<>>
    /\ UNCHANGED <<cfg, nrows, started, npass, pass, init_row, init_rows, event, sel>>

NextConfig ==
    \/ InitialRun
    \/ \E path \in EventPaths : OnModifiedSerial(path)
    \/ \E p \in Passes : Step(p)
    \/ AppendRow
    \/ DeleteConfig

ConfigSpec == Init /\ [][NextConfig]_vars

\* Pass p takes the step that loads its state while config.json is missing.
LoadsWithoutConfig(p) ==
    /\ pass[p].pc = "load"
    /\ pass'[p].pc # "load"
    /\ ~config_exists

\* ------------------------------------------------------------------ events
\* str(EXCEL_PATH): the path of the tracked spreadsheet.
TrackedPath == <<"/", "r", ".", "x">>

\* The serial program with each event recorded: the path the observer
\* reported and the number of calls of process_sheet the handler made for it.
OnModifiedTraced(path) ==
    /\ NoPassInFlight
    /\ on_modified(path)
    /\ event' = [path |-> path, calls |-> npass' - npass]

NextEvent ==
    \/ InitialRun
    \/ \E path \in EventPaths : OnModifiedTraced(path)
    \/ \E p \in Passes : Step(p)
    \/ AppendRow

EventSpec == Init /\ [][NextEvent]_vars

\* ------------------------------------------------------------------ templates
\* Text is a sequence of characters.  The Cyrillic letters of the marker
\* are named pe er o sha ie el (small) and PE ER O SHA IE EL (capital);
\* en and io are two more small Cyrillic letters; lat_* are Latin letters.
Marker == <<"pe", "er", "o", "sha", "ie", "el">>

Capital == [c \in {"pe", "er", "o", "sha", "ie", "el", "en", "io",
                   "lat_n", "lat_o", "lat_e", "lat_a"} |->
              CASE c = "pe" -> "PE" [] c = "er" -> "ER" [] c = "o" -> "O"
                [] c = "sha" -> "SHA" [] c = "ie" -> "IE" [] c = "el" -> "EL"
                [] c = "en" -> "EN" [] c = "io" -> "IO"
                [] c = "lat_n" -> "lat_N" [] c = "lat_o" -> "lat_O"
                [] c = "lat_e" -> "lat_E" [] c = "lat_a" -> "lat_A"]

\* str.lower, one character
LowerChar(c) ==
    IF \E l \in DOMAIN Capital : Capital[l] = c
       THEN CHOOSE l \in DOMAIN Capital : Capital[l] = c
       ELSE c

\* str.lower
Lower(s) == [i \in 1..Len(s) |-> LowerChar(s[i])]

\* The characters str.strip removes: space and tab stand for all of them.
Whitespace == {" ", "TAB"}

RECURSIVE LStrip(_)
LStrip(s) == IF s # <<>> /\ Head(s) \in Whitespace THEN LStrip(Tail(s)) ELSE s

RECURSIVE RStrip(_)
RStrip(s) ==
    IF s # <<>> /\ s[Len(s)] \in Whitespace
       THEN RStrip(SubSeq(s, 1, Len(s) - 1))
       ELSE s

\* str.strip
Strip(s) == RStrip(LStrip(s))

\* str(result): a string cell is itself, None is "None", an empty cell
\* (NaN) is "nan".
Str(v) ==
    CASE v.kind = "str" -> v.text
      [] v.kind = "none" -> <<"lat_N", "lat_o", "lat_n", "lat_e">>
      [] v.kind = "nan" -> <<"lat_n", "lat_a", "lat_n">>

\* A comparison without strip().
TemplateNameNoStrip(v) ==
    IF Lower(Str(v)) = <<"pe", "er", "o", "sha", "ie", "el">>
       THEN "passed.j2" ELSE "failed.j2"

\* A comparison without lower().
TemplateNameNoLower(v) ==
    IF Strip(Str(v)) = <<"pe", "er", "o", "sha", "ie", "el">>
       THEN "passed.j2" ELSE "failed.j2"

\* lines 94-97: the template of a row with result cell v
TemplateName(v) ==
    IF Lower(Strip(Str(v))) = Marker THEN "passed.j2" ELSE "failed.j2"

\* The result cells tried: the marker in every mix of small and capital
\* letters and a few other words, each between every two runs of at most
\* MaxPad whitespace characters; also None and the empty cell.
CaseVariants ==
    { [i \in 1..Len(Marker) |-> IF i \in S THEN Capital[Marker[i]] ELSE Marker[i]] :
        S \in SUBSET (1..Len(Marker)) }

OtherWords ==
    { <<>>,
      <<"en", "ie", " ", "pe", "er", "o", "sha", "ie", "el">>,
      <<"pe", "er", "o", " ", "sha", "ie", "el">>,
      <<"pe", "er", "o", "sha", "ie">>,
      <<"pe", "er", "o", "sha", "ie", "el", "lat_a">>,
      <<"pe", "er", "o", "sha", "io", "el">>,
      <<"pe", "er", "lat_o", "sha", "ie", "el">>,
      <<"lat_N", "lat_o", "lat_n", "lat_e">> }

Pads == UNION { [1..n -> Whitespace] : n \in 0..MaxPad }

ResultValues ==
    {[kind |-> "none"], [kind |-> "nan"]}
    \cup { [kind |-> "str", text |-> l \o w \o t] :
             l \in Pads, w \in CaseVariants \cup OtherWords, t \in Pads }

\* The loop body up to the choice of the template, for a row whose result
\* cell is v.
ChooseTemplate(v) ==
    /\ result = NoResult
    /\ result' = v
    /\ template_name' = TemplateName(v)
    /\ UNCHANGED <<config_exists, config, cfg, nrows, started, npass, pass,
                   init_row, init_rows, event>>

NextSelect == \E v \in ResultValues : ChooseTemplate(v)

SelectSpec == Init /\ [][NextSelect]_vars

\* ------------------------------------------------------------------ claims

\* C1: in SerialSpec, a pass that started at checkpoint c <= n (n the table
\* size it read), has returned and whose sends all succeeded has sent
\* exactly the rows c..n-1, once each in increasing order, and leaves the
\* checkpoint at n.
C1_FullPass ==
    \A p \in Passes :
        (/\ LatestDone(p)
         /\ AllOk(p)
         /\ pass[p].last_row <= pass[p].total_rows)
        => /\ pass[p].att = SentInOrder(pass[p].last_row, pass[p].total_rows)
           /\ Checkpoint = pass[p].total_rows

C1_Witness ==
    \E p \in Passes :
        /\ LatestDone(p)
        /\ AllOk(p)
        /\ pass[p].last_row = 0
        /\ pass[p].total_rows = MaxRows
        /\ LPR \in DOMAIN config

\* C2: in SerialSpec, a returned pass over rows c..n-1 in which exactly
\* row k failed leaves the checkpoint at k, and the pass after it, over the
\* same table, attempts exactly the rows k..n-1.
C2_PartialFailure ==
    \A p \in Passes :
        (/\ pass[p].pc = "done"
         /\ Cardinality(Failed(p)) = 1
         /\ Attempted(p) = pass[p].last_row..(pass[p].total_rows - 1))
        => \A k \in Failed(p) :
              /\ p = npass => Checkpoint = k
              /\ (/\ p + 1 <= npass
                  /\ pass[p + 1].pc = "done"
                  /\ pass[p + 1].total_rows = pass[p].total_rows)
                 => Attempted(p + 1) = k..(pass[p].total_rows - 1)

\* C3: every row at or above the initial checkpoint and below the persisted
\* checkpoint has been delivered at least once.
C3_DeliveredBelowCheckpoint ==
    \A r \in Rows :
        (init_row <= r /\ r < Checkpoint) => Delivered(r) >= 1

\* C4: in SerialSpec, a row whose send failed in one pass is attempted
\* again by the next pass once that pass has returned.
C4_RetriedNextPass ==
    \A p \in Passes :
        (p + 1 <= npass /\ pass[p + 1].pc = "done")
        => Failed(p) \subseteq Attempted(p + 1)

\* C5: in SerialSpec, a pass that follows a returned pass whose sends all
\* succeeded, and reads a table of the same size, attempts no send, returns,
\* and leaves config.json as it loaded it.
C5_Idempotent ==
    \A p \in Passes :
        (/\ p + 1 <= npass
         /\ pass[p].pc = "done"
         /\ AllOk(p)
         /\ pass[p + 1].pc \notin {"load", "read"}
         /\ pass[p + 1].total_rows = pass[p].total_rows)
        => /\ pass[p + 1].att = <<>>
           /\ pass[p + 1].pc = "done"
           /\ (p + 1 = npass => config = pass[p + 1].state)

C5_Witness ==
    \E p \in Passes :
        /\ p + 1 <= npass
        /\ pass[p].pc = "done"
        /\ AllOk(p)
        /\ Len(pass[p].att) = MaxRows
        /\ pass[p + 1].pc = "done"
        /\ pass[p + 1].total_rows = pass[p].total_rows

\* C6: in SerialSpec, as long as no send has failed, no row is delivered
\* twice, no row below the initial checkpoint is delivered, no pass attempts
\* a row below the checkpoint it loaded, and once the latest pass has
\* returned from reading the whole table every row from the initial
\* checkpoint on has been delivered exactly once.
C6_OnlyNewRows ==
    (\A p \in Passes : AllOk(p))
    => /\ \A r \in Rows : Delivered(r) <= 1
       /\ \A r \in Rows : Delivered(r) = 1 => r >= init_row
       /\ \A p \in Passes : \A r \in Attempted(p) : r >= pass[p].last_row
       /\ \A p \in Passes :
             (LatestDone(p) /\ pass[p].total_rows = nrows)
             => \A r \in Rows : (init_row <= r /\ r < nrows) => Delivered(r) = 1

C6_Witness ==
    /\ \A p \in Passes : AllOk(p)
    /\ npass >= 2
    /\ LatestDone(npass)
    /\ pass[npass].total_rows = nrows
    /\ nrows > init_rows
    /\ Len(pass[1].att) >= 1
    /\ Len(pass[npass].att) >= 1

\* C7: config.json changes only in the step of a pass that directly follows
\* its successful send of row idx: the last attempt of that pass is the
\* successful send of idx, the step sends nothing, and the new content is
\* the pass's state with last_processed_row = idx + 1.
C7_WriteFollowsSend ==
    [][config' # config =>
         \E p \in Passes :
            /\ pass[p].pc = "save"
            /\ pass[p].att # <<>>
            /\ Last(pass[p].att) = [idx |-> pass[p].idx, ok |-> TRUE]
            /\ pass'[p].att = pass[p].att
            /\ \A q \in Passes \ {p} : pass'[q] = pass[q]
            /\ config' = DictSet(pass[p].state, LPR, pass[p].idx + 1)]_vars

C7_Witness ==
    \E p \in Passes :
        /\ pass[p].pc = "done"
        /\ Len(pass[p].att) = 2
        /\ ~pass[p].att[1].ok
        /\ pass[p].att[2].ok
        /\ LPR \in DOMAIN config
        /\ config[LPR] = pass[p].idx
        /\ config[LPR] = pass[p].last_row + 2

\* C8: the persisted checkpoint never decreases, whether or not passes
\* overlap.
C8_NeverDecreases ==
    [][DictGet(config', LPR, DefaultLastRow) >= Checkpoint]_vars

\* C9: when the run starts with a checkpoint that is at most the table
\* size, the persisted checkpoint is at most the current table size.
C9_AtMostRowCount ==
    init_row <= init_rows => Checkpoint <= nrows

C9_Witness ==
    /\ init_row <= init_rows
    /\ nrows > init_rows
    /\ Checkpoint = nrows
    /\ \E p \in Passes : pass[p].pc = "done" /\ pass[p].total_rows = nrows
                         /\ pass[p].att # <<>> /\ Last(pass[p].att).ok

\* C10: the step in which a send fails leaves config.json unchanged and
\* moves the pass on to the next row, or to its end after the last row; a
\* pass that has had a failed send is past the failed row, and once it has
\* returned it has attempted every row from its checkpoint to total_rows - 1.
C10_FailedSendStep ==
    \A p \in Passes :
        (/\ Len(pass'[p].att) = Len(pass[p].att) + 1
         /\ ~Last(pass'[p].att).ok)
        => /\ config' = config
           /\ pass'[p].idx = pass[p].idx + 1
           /\ pass'[p].pc = IF pass[p].idx + 1 < pass[p].total_rows
                               THEN "row" ELSE "done"

C10_FailedSendState ==
    \A p \in Passes :
        /\ \A k \in Failed(p) : pass[p].idx > k
        /\ pass[p].pc = "done" /\ pass[p].last_row <= pass[p].total_rows
           => Attempted(p) = pass[p].last_row..(pass[p].total_rows - 1)

C10_SendErrorIsolated == [][C10_FailedSendStep]_vars /\ []C10_FailedSendState

C10_Witness ==
    \E p \in Passes :
        /\ pass[p].pc = "done"
        /\ Len(pass[p].att) = 2
        /\ ~pass[p].att[1].ok
        /\ pass[p].att[2].ok

\* C11: the step of a pass that finds no template for its row (a step from
\* the loop that attempts no send) leaves config.json unchanged and moves
\* the pass on to the next row, as a failed send does.
C11_TemplateErrorIsolated ==
    [][\A p \in Passes :
          (/\ pass[p].pc = "row"
           /\ pass'[p] # pass[p]
           /\ pass'[p].att = pass[p].att)
          => /\ config' = config
             /\ pass'[p].idx = pass[p].idx + 1
             /\ pass'[p].pc = LoopPc(pass[p].idx + 1, pass[p].total_rows)]_vars

\* C12: at most one pass is in flight at any time.
C12_OnePassInFlight ==
    Cardinality({ p \in Passes : InFlight(p) }) <= 1

\* Rows that pass q attempted although a pass in ps had delivered them.
Resent(q, ps) ==
    { r \in Attempted(q) :
        \E p \in ps : \E i \in 1..Len(pass[p].att) :
            pass[p].att[i] = [idx |-> r, ok |-> TRUE] }

\* Pass q has read its checkpoint and was entered right after a termination.
Restarted(q) ==
    /\ q >= 2
    /\ pass[q - 1].pc = "killed"
    /\ pass[q].pc \notin {"idle", "load"}

\* C13 as stated: in CrashSpec, the pass entered after a termination
\* attempts at most one row that had been delivered before, and once it has
\* returned it has attempted every row from the persisted checkpoint on.
C13_AtMostOneResent ==
    \A q \in Passes :
        Restarted(q)
        => /\ Cardinality(Resent(q, 1..(q - 1))) <= 1
           /\ pass[q].pc = "done"
              => \A r \in Rows :
                    (pass[q].last_row <= r /\ r < pass[q].total_rows)
                    => r \in Attempted(q)

\* C13 as amended: in CrashSpec, the pass entered after a termination
\* attempts at most one row that the terminated pass had delivered; every
\* row it attempts that any earlier pass had delivered is one whose send
\* completed in a terminated pass that had not yet written the checkpoint
\* for it; it starts at the checkpoint persisted at the termination, and
\* once it has returned it has attempted every row from that checkpoint to
\* the end of the table.
C13_CrashRecovery ==
    \A q \in Passes :
        Restarted(q)
        => /\ Cardinality(Resent(q, {q - 1})) <= 1
           /\ \A r \in Resent(q, 1..(q - 1)) :
                 \E p \in 1..(q - 1) : KilledBeforeSave(p, r)
           /\ q = InitialPass => pass[q].last_row = init_row
           /\ pass[q].pc = "done"
              => \A r \in Rows :
                    (pass[q].last_row <= r /\ r < pass[q].total_rows)
                    => r \in Attempted(q)

C13_Witness ==
    \E q \in Passes :
        /\ q >= 2
        /\ KilledBeforeSave(q - 1, pass[q].last_row)
        /\ pass[q].pc = "done"
        /\ Len(pass[q].att) = 2
        /\ AllOk(q)
        /\ DeliveredBefore(q, pass[q].last_row)

\* C14: in EventSpec, an event on the tracked file makes the handler call
\* process_sheet exactly once, and an event on any other path makes it call
\* process_sheet not at all.
C14_OnlyTrackedFile ==
    event # NoEvent
    => event.calls = IF event.path = TrackedPath THEN 1 ELSE 0

\* C15 as stated: in ConfigSpec, a pass whose load step finds config.json
\* missing ends there, with nothing sent and nothing written.
C15_MissingConfigAborts ==
    [][\A p \in Passes :
          LoadsWithoutConfig(p)
          => /\ pass'[p].pc = "aborted"
             /\ pass'[p].att = <<>>
             /\ UNCHANGED <<config, config_exists>>]_vars

\* C15 as amended: in ConfigSpec, a pass whose load step finds config.json
\* missing goes on: its state is the configuration loaded at startup with
\* last_processed_row = 1, it starts at row offset 1, and the step itself
\* writes nothing.
C15_MissingConfigFallback ==
    [][\A p \in Passes :
          LoadsWithoutConfig(p)
          => /\ pass'[p].pc = "read"
             /\ pass'[p].last_row = DefaultLastRow
             /\ DOMAIN pass'[p].state = DOMAIN cfg \cup {LPR}
             /\ \A k \in DOMAIN pass'[p].state :
                   pass'[p].state[k] = IF k = LPR THEN DefaultLastRow ELSE cfg[k]
             /\ UNCHANGED <<config, config_exists>>]_vars

\* A pass that fell back sent row 1, which lay below the checkpoint the
\* run started from, and wrote config.json anew.
C15_Witness ==
    \E p \in Passes :
        /\ pass[p].pc = "done"
        /\ init_row = MaxRows
        /\ pass[p].last_row = DefaultLastRow
        /\ pass[p].att = <<[idx |-> DefaultLastRow, ok |-> TRUE]>>
        /\ config_exists
        /\ config = pass[p].state

\* The text t is the marker, each letter small or capital, with nothing
\* but whitespace before it and after it.
IsPaddedMarker(t) ==
    \E a \in 0..Len(t) :
        /\ a + Len(Marker) <= Len(t)
        /\ \A i \in 1..Len(t) :
              IF i <= a \/ i > a + Len(Marker)
                 THEN t[i] \in Whitespace
                 ELSE t[i] \in {Marker[i - a], Capital[Marker[i - a]]}

\* C16: in SelectSpec, the template chosen for a result cell is passed.j2
\* exactly when the cell is a string made of the marker in any letter case
\* between leading and trailing whitespace, and failed.j2 for every other
\* cell, the empty string, None and the empty cell among them.
C16_TemplateSelection ==
    result # NoResult
    => template_name =
          IF result.kind = "str" /\ IsPaddedMarker(result.text)
             THEN "passed.j2" ELSE "failed.j2"

C16_Witness ==
    /\ result # NoResult
    /\ result.kind = "str"
    /\ Len(result.text) = Len(Marker) + 2
    /\ result.text[2] = "PE"
    /\ result.text[3] = "er"
    /\ template_name = "passed.j2"

\* The send attempts of pass p went up one row offset at a time.
C17_PassInOrder(p) ==
    \A i \in 1..(Len(pass[p].att) - 1) :
        pass[p].att[i + 1].idx = pass[p].att[i].idx + 1

\* C17: the send attempts of every pass are in strictly increasing row
\* order, no row twice, whatever their outcomes; and over the run no two
\* passes are in their send loops at once, so that rows are not sent in
\* parallel or out of order.
C17_Ordering ==
    /\ \A p \in Passes : C17_PassInOrder(p)
    /\ \A p, q \in Passes : (p # q /\ InLoop(p)) => ~InLoop(q)

\* C18: in ConfigSpec, every write of config.json leaves a file with the
\* checkpoint and with every other field exactly as in the state of the
\* writing pass; the other fields of a pass's state never change after its
\* load; and whenever config.json exists its other fields are those loaded
\* at startup, none changed and none dropped.
C18_WriteStep ==
    (config' # config /\ config_exists')
    => \E p \in Passes :
          /\ pass[p].pc = "save"
          /\ LPR \in DOMAIN config'
          /\ NonCheckpoint(config') = NonCheckpoint(pass[p].state)

C18_StateStep ==
    \A p \in Passes :
        pass[p].pc \notin {"idle", "load"}
        => NonCheckpoint(pass'[p].state) = NonCheckpoint(pass[p].state)

C18_FieldsKept ==
    /\ config_exists => NonCheckpoint(config) = NonCheckpoint(cfg)
    /\ \A p \in Passes :
          pass[p].pc \notin {"idle", "load"}
          => NonCheckpoint(pass[p].state) = NonCheckpoint(cfg)

C18_SaveFrame ==
    [][C18_WriteStep /\ C18_StateStep]_vars /\ []C18_FieldsKept

\* A pass wrote the checkpoint into a configuration that had none, and a
\* pass wrote the file anew after it had been removed.
C18_Witness ==
    /\ LPR \notin DOMAIN cfg
    /\ config_exists
    /\ DOMAIN config = (DOMAIN cfg) \cup {LPR}
    /\ \E p \in Passes : pass[p].pc = "done" /\ pass[p].att # <<>>
                          /\ config = pass[p].state

\* C19: in SerialSpec, when the latest pass has ended, the checkpoint is
\* j + 1 for the highest row j it delivered, whatever happened to the rows
\* below j; if it delivered no row, config.json is as the pass loaded it.
C19_HighestSuccess ==
    \A p \in Passes :
        (p = npass /\ pass[p].pc \in {"done", "aborted"})
        => IF Succeeded(p) # {}
              THEN /\ LPR \in DOMAIN config
                   /\ config[LPR] = Max(Succeeded(p)) + 1
              ELSE config = pass[p].state

C19_Witness ==
    \E p \in Passes :
        /\ LatestDone(p)
        /\ Failed(p) = {pass[p].last_row}
        /\ Succeeded(p) = {pass[p].last_row + 1}
        /\ Checkpoint = pass[p].last_row + 2

\* C20: when the configuration loaded at startup has no last_processed_row
\* (or has one of at least 1), no pass ever attempts the row at offset 0,
\* every pass starts at offset 1 or above, the checkpoint is never below 1,
\* and a pass whose state has no last_processed_row started at offset 1.
C20_RowZeroSkipped ==
    (LPR \notin DOMAIN cfg \/ cfg[LPR] >= 1)
    => /\ DictGet(config, LPR, 1) >= 1
       /\ \A p \in Passes :
             /\ 0 \notin Attempted(p)
             /\ pass[p].pc \notin {"idle", "load"}
                => /\ pass[p].last_row >= 1
                   /\ LPR \notin DOMAIN pass[p].state => pass[p].last_row = 1

C20_Witness ==
    /\ LPR \notin DOMAIN cfg
    /\ init_rows = MaxRows
    /\ \E p \in Passes :
          /\ pass[p].pc = "done"
          /\ pass[p].att = <<[idx |-> 1, ok |-> TRUE]>>
          /\ Delivered(0) = 0
          /\ LPR \in DOMAIN config
          /\ config[LPR] = MaxRows

====
